---------------------------- MODULE Spec2Model ----------------------------
(***************************************************************************)
(* Version extraction of polytracker/_version.py.                          *)
(*                                                                         *)
(* A text is a sequence of one-character strings.  A header line is given  *)
(* by the outcome of the regular expression of extract_version on it:      *)
(* whether the line has the shape "#define POLYTRACKER_VERSION_<name>      *)
(* <value>" and, if so, its two captured groups.                           *)
(***************************************************************************)
EXTENDS Integers, Sequences, FiniteSets, TLC

VARIABLES
    exists,         \* header_path.exists()
    header,         \* the lines of polytracker.h (<<>> when it does not exist)
    pc,             \* position of the interpreter
    caller,         \* "import" | "get_version_string" | "extract_version"
    file,           \* state of the file object f: "closed" | "open"
    i,              \* number of lines the for loop has read from f
    version_parts,  \* the dict version_parts
    req,            \* index of required_part in ("MAJOR", "MINOR", "REVISION")
    stderr,         \* what was written to sys.stderr, in order
    status,         \* exit status of the process (0 while it runs)
    ret,            \* return value of the current/last extract_version call
    result,         \* return value of the current/last get_version_string call
    version,        \* the module attribute __version__
    calls,          \* calls made by clients after the import
    callFile,       \* <<exists, header>> when the current/last call started
    lastFile,       \* <<exists, header>> when the call before it started
    lastRet,        \* ret of the call before the current/last one
    lastResult,     \* result of the call before the current/last one
    importFile      \* <<exists, header>> when the module was imported

vars == <<exists, header, pc, caller, file, i, version_parts, req, stderr,
          status, ret, result, version, calls, callFile, lastFile, lastRet,
          lastResult, importFile>>

-----------------------------------------------------------------------------
(* Bounds *)

MaxLines == 4

MaxCalls == 2

-----------------------------------------------------------------------------
(* Optional values: Python's None and a present value *)

None == [some |-> FALSE]

Some(x) == [some |-> TRUE, v |-> x]

-----------------------------------------------------------------------------
(* Texts *)

Quote == "\""

Whitespace == {" ", "\t", "\n"}

DigitVal ==
    ("0" :> 0) @@ ("1" :> 1) @@ ("2" :> 2) @@ ("3" :> 3) @@ ("4" :> 4) @@
    ("5" :> 5) @@ ("6" :> 6) @@ ("7" :> 7) @@ ("8" :> 8) @@ ("9" :> 9)

DigitChar == <<"0", "1", "2", "3", "4", "5", "6", "7", "8", "9">>

IsDigit(c) == c \in DOMAIN DigitVal

RECURSIVE LStrip(_)
LStrip(s) ==
    IF s # <<>> /\ Head(s) \in Whitespace THEN LStrip(Tail(s)) ELSE s

RECURSIVE RStrip(_)
RStrip(s) ==
    IF s # <<>> /\ s[Len(s)] \in Whitespace
    THEN RStrip(SubSeq(s, 1, Len(s) - 1))
    ELSE s

\* str.strip()
Strip(s) == RStrip(LStrip(s))

\* s[1:-1]
Slice1(s) == SubSeq(s, 2, Len(s) - 1)

\* the digits of int(): decimal digits, single underscores between them
IsDigits(s) ==
    /\ s # <<>>
    /\ IsDigit(s[1])
    /\ IsDigit(s[Len(s)])
    /\ \A k \in 1..Len(s) : IsDigit(s[k]) \/ s[k] = "_"
    /\ \A k \in 1..(Len(s) - 1) : ~(s[k] = "_" /\ s[k + 1] = "_")

RECURSIVE DigitsValue(_, _)
DigitsValue(s, acc) ==
    IF s = <<>> THEN acc
    ELSE IF Head(s) = "_" THEN DigitsValue(Tail(s), acc)
    ELSE DigitsValue(Tail(s), 10 * acc + DigitVal[Head(s)])

\* int(s): [ok |-> FALSE] stands for ValueError
ParseInt(s) ==
    LET t == Strip(s)
        signed == t # <<>> /\ Head(t) \in {"+", "-"}
        body == IF signed THEN Tail(t) ELSE t
    IN  IF IsDigits(body)
        THEN [ok |-> TRUE,
              n |-> IF signed /\ Head(t) = "-"
                    THEN 0 - DigitsValue(body, 0)
                    ELSE DigitsValue(body, 0)]
        ELSE [ok |-> FALSE]

RECURSIVE NatStr(_)
NatStr(n) ==
    IF n < 10 THEN <<DigitChar[n + 1]>>
    ELSE NatStr(n \div 10) \o <<DigitChar[(n % 10) + 1]>>

\* str(n) of an int
Str(n) == IF n < 0 THEN <<"-">> \o NatStr(0 - n) ELSE NatStr(n)

RECURSIVE Join(_, _)
\* sep.join(parts)
Join(sep, parts) ==
    IF parts = <<>> THEN <<>>
    ELSE IF Len(parts) = 1 THEN parts[1]
    ELSE parts[1] \o sep \o Join(sep, Tail(parts))

-----------------------------------------------------------------------------
(* Header lines *)

Recognized == {"MAJOR", "MINOR", "REVISION", "SUFFIX"}

\* MINOR is validated before MAJOR
RequiredMinorFirst == <<"MINOR", "MAJOR", "REVISION">>

Required == <<"MAJOR", "MINOR", "REVISION">>

\* A line "#define POLYTRACKER_VERSION_<name> <rest>" (rest: the text that
\* follows the whitespace after the name), or any other line.
Define(name, rest) == [define |-> TRUE, name |-> name, rest |-> rest]

Other == [define |-> FALSE, name |-> "", rest |-> <<>>]

\* re.match(r"\s*#define\s+POLYTRACKER_VERSION_([A-Za-z_0-9]+)\s+([^\s]+)\s*$")
\* None, or Some(<<m[1], m[2]>>)
Match(line) ==
    LET value == RStrip(line.rest)
    IN  IF /\ line.define
           /\ line.name # ""
           /\ value # <<>>
           /\ \A k \in 1..Len(value) : value[k] \notin Whitespace
        THEN Some(<<line.name, value>>)
        ELSE None

Lines ==
    { Define("MAJOR", <<"1">>),
      Define("MAJOR", <<"a", "b", "c">>),
      Define("MINOR", <<"2">>),
      Define("MINOR", <<"-", "1", "4">>),
      Define("MINOR", <<"x">>),
      Define("REVISION", <<"3", " ">>),
      Define("SUFFIX", <<Quote, "-", "r", "c", "1", Quote>>),
      Define("SUFFIX", <<Quote, Quote>>),
      Define("SUFFIX", <<Quote, Quote, Quote, Quote>>),
      Define("SUFFIX", <<"-", "d", "e", "v">>),
      Define("FOO", <<"b", "a", "r">>),
      Other }

-----------------------------------------------------------------------------
(* The dict version_parts and what is written to sys.stderr *)

StrEntry(s) == [t |-> "str", s |-> s]

IntEntry(n) == [t |-> "int", n |-> n]

\* {}
EmptyParts == <<>>

\* version_parts[name] = entry
Store(parts, name, entry) ==
    [n \in DOMAIN parts \cup {name} |-> IF n = name THEN entry ELSE parts[n]]

Warning(name, lineno) == [kind |-> "Warning", name |-> name, line |-> lineno]

Fatal(kind, name) == [kind |-> kind, name |-> name, line |-> 0]

FatalKinds == {"NoHeader", "NotFound", "NotInteger"}

-----------------------------------------------------------------------------
(* Lines 65-72: the suffix of the returned tuple *)

\* the empty text is returned as it is
SuffixKeepsEmpty(parts) ==
    IF "SUFFIX" \notin DOMAIN parts THEN None
    ELSE LET stripped == Strip(parts["SUFFIX"].s)
         IN  IF /\ stripped # <<>>
                /\ Head(stripped) = Quote
                /\ stripped[Len(stripped)] = Quote
             THEN Some(Slice1(stripped))
             ELSE Some(stripped)

RECURSIVE StripQuotes(_)
StripQuotes(text) ==
    IF text # <<>> /\ Head(text) = Quote THEN StripQuotes(Tail(text))
    ELSE IF text # <<>> /\ text[Len(text)] = Quote
    THEN StripQuotes(SubSeq(text, 1, Len(text) - 1))
    ELSE text

\* every leading and trailing double-quote is removed: suffix.strip('"')
SuffixStripsAll(parts) ==
    IF "SUFFIX" \notin DOMAIN parts THEN None
    ELSE LET unquoted == StripQuotes(Strip(parts["SUFFIX"].s))
         IN  IF unquoted = <<>> THEN None ELSE Some(unquoted)

\* None, or Some(text)
Suffix(parts) ==
    IF "SUFFIX" \notin DOMAIN parts THEN None
    ELSE LET stripped == Strip(parts["SUFFIX"].s)
             unquoted ==
                 IF /\ stripped # <<>>
                    /\ Head(stripped) = Quote
                    /\ stripped[Len(stripped)] = Quote
                 THEN Slice1(stripped)
                 ELSE stripped
         IN  IF unquoted = <<>> THEN None ELSE Some(unquoted)

\* the suffix is joined to the numbers with a dot like the numbers are
FormatJoinsSuffix(tuple) ==
    LET primary_str == Join(<<".">>, [k \in 1..3 |-> Str(tuple[k])])
    IN  IF tuple[4] = None THEN primary_str
        ELSE Join(<<".">>, <<primary_str, tuple[4].v>>)

\* Lines 88-94
Format(tuple) ==
    LET primary == SubSeq(tuple, 1, 3)
        suffix == tuple[4]
        primary_str == Join(<<".">>, [k \in 1..3 |-> Str(primary[k])])
    IN  IF suffix = None THEN primary_str ELSE primary_str \o suffix.v

-----------------------------------------------------------------------------
(* extract_version as a function of the file system: what one call makes  *)
(* of a header, <<exists, lines>>.                                         *)

RECURSIVE Table(_, _)
\* Lines 36-48: version_parts after the for loop over the lines
Table(lines, parts) ==
    IF lines = <<>> THEN parts
    ELSE LET m == Match(Head(lines))
         IN  IF m # None /\ m.v[1] \in Recognized
             THEN Table(Tail(lines), Store(parts, m.v[1], StrEntry(m.v[2])))
             ELSE Table(Tail(lines), parts)

Failure(kind, name) == [ok |-> FALSE, kind |-> kind, name |-> name]

RECURSIVE Validated(_, _)
\* Lines 51-79: the first fatal condition, or the returned tuple
Validated(parts, k) ==
    IF k > Len(Required)
    THEN [ok |-> TRUE,
          tuple |-> <<parts["MAJOR"].n, parts["MINOR"].n, parts["REVISION"].n,
                      Suffix(parts)>>]
    ELSE IF Required[k] \notin DOMAIN parts
    THEN Failure("NotFound", Required[k])
    ELSE IF ~ParseInt(parts[Required[k]].s).ok
    THEN Failure("NotInteger", Required[k])
    ELSE Validated(Store(parts, Required[k],
                         IntEntry(ParseInt(parts[Required[k]].s).n)), k + 1)

\* Lines 13-24, 27-79
Extract(f) ==
    IF ~f[1] THEN Failure("NoHeader", "")
    ELSE Validated(Table(f[2], EmptyParts), 1)

-----------------------------------------------------------------------------
(* The state after the interpreter starts importing polytracker._version *)

Started ==
    /\ pc = "get_header"
    /\ caller = "import"
    /\ file = "closed"
    /\ i = 0
    /\ version_parts = EmptyParts
    /\ req = 1
    /\ stderr = <<>>
    /\ status = 0
    /\ ret = None
    /\ result = None
    /\ version = None
    /\ calls = 0
    /\ callFile = <<exists, header>>
    /\ lastFile = None
    /\ lastRet = None
    /\ lastResult = None
    /\ importFile = <<exists, header>>

\* the header is missing, or is any header of at most MaxLines lines
Init ==
    /\ exists \in BOOLEAN
    /\ IF exists
       THEN \E n \in 0..MaxLines : header \in [1..n -> Lines]
       ELSE header = <<>>
    /\ Started

ghosts == <<callFile, lastFile, lastRet, lastResult, importFile>>

\* Lines 18-22: the header is missing
HeaderMissing ==
    /\ pc = "get_header"
    /\ ~exists
    /\ stderr' = Append(stderr, Fatal("NoHeader", ""))
    /\ pc' = "sys_exit"
    /\ UNCHANGED <<exists, header, caller, file, i, version_parts, req, status,
                   ret, result, version, calls, ghosts>>

\* version_parts is not made afresh
HeaderFoundKeepsParts ==
    /\ pc = "get_header"
    /\ exists
    /\ pc' = "open"
    /\ UNCHANGED <<exists, header, caller, file, i, version_parts, req, stderr,
                   status, ret, result, version, calls, ghosts>>

\* Lines 18, 24, 33-34: the header exists
HeaderFound ==
    /\ pc = "get_header"
    /\ exists
    /\ version_parts' = EmptyParts
    /\ pc' = "open"
    /\ UNCHANGED <<exists, header, caller, file, i, req, stderr, status, ret,
                   result, version, calls, ghosts>>

\* Line 36: open(header_path, "r")
OpenHeader ==
    /\ pc = "open"
    /\ file' = "open"
    /\ i' = 0
    /\ pc' = "scan"
    /\ UNCHANGED <<exists, header, caller, version_parts, req, stderr, status,
                   ret, result, version, calls, ghosts>>

\* Lines 37-41: a line that does not match
ScanSkip ==
    /\ pc = "scan"
    /\ i < Len(header)
    /\ Match(header[i + 1]) = None
    /\ i' = i + 1
    /\ UNCHANGED <<exists, header, pc, caller, file, version_parts, req, stderr,
                   status, ret, result, version, calls, ghosts>>

\* the line with the unexpected name is recorded all the same
ScanWarnRecords ==
    /\ pc = "scan"
    /\ i < Len(header)
    /\ LET m == Match(header[i + 1])
       IN  /\ m # None
           /\ m.v[1] \notin Recognized
           /\ stderr' = Append(stderr, Warning(m.v[1], i + 1))
           /\ version_parts' = Store(version_parts, m.v[1], StrEntry(m.v[2]))
    /\ i' = i + 1
    /\ UNCHANGED <<exists, header, pc, caller, file, req, status, ret, result,
                   version, calls, ghosts>>

\* Lines 37-46: a matching line with an unexpected name
ScanWarn ==
    /\ pc = "scan"
    /\ i < Len(header)
    /\ LET m == Match(header[i + 1])
       IN  /\ m # None
           /\ m.v[1] \notin Recognized
           /\ stderr' = Append(stderr, Warning(m.v[1], i + 1))
    /\ i' = i + 1
    /\ UNCHANGED <<exists, header, pc, caller, file, version_parts, req, status,
                   ret, result, version, calls, ghosts>>

\* a name that is already in version_parts keeps its first value
ScanRecordFirstWins ==
    /\ pc = "scan"
    /\ i < Len(header)
    /\ LET m == Match(header[i + 1])
       IN  /\ m # None
           /\ m.v[1] \in Recognized
           /\ version_parts' =
                  IF m.v[1] \in DOMAIN version_parts THEN version_parts
                  ELSE Store(version_parts, m.v[1], StrEntry(m.v[2]))
    /\ i' = i + 1
    /\ UNCHANGED <<exists, header, pc, caller, file, req, stderr, status, ret,
                   result, version, calls, ghosts>>

\* Lines 37-42, 47-48: a matching line with one of the four names
ScanRecord ==
    /\ pc = "scan"
    /\ i < Len(header)
    /\ LET m == Match(header[i + 1])
       IN  /\ m # None
           /\ m.v[1] \in Recognized
           /\ version_parts' = Store(version_parts, m.v[1], StrEntry(m.v[2]))
    /\ i' = i + 1
    /\ UNCHANGED <<exists, header, pc, caller, file, req, stderr, status, ret,
                   result, version, calls, ghosts>>

\* f is not closed when the for loop is exhausted
CloseHeaderLeaks ==
    /\ pc = "scan"
    /\ i = Len(header)
    /\ req' = 1
    /\ pc' = "validate"
    /\ UNCHANGED <<exists, header, caller, file, i, version_parts, stderr,
                   status, ret, result, version, calls, ghosts>>

\* Lines 36-37, 51: the for loop is exhausted and the with block closes f
CloseHeader ==
    /\ pc = "scan"
    /\ i = Len(header)
    /\ file' = "closed"
    /\ req' = 1
    /\ pc' = "validate"
    /\ UNCHANGED <<exists, header, caller, i, version_parts, stderr, status,
                   ret, result, version, calls, ghosts>>

\* Lines 52-55: required_part is not in version_parts
RequiredNotFound ==
    /\ pc = "validate"
    /\ Required[req] \notin DOMAIN version_parts
    /\ stderr' = Append(stderr, Fatal("NotFound", Required[req]))
    /\ pc' = "sys_exit"
    /\ UNCHANGED <<exists, header, caller, file, i, version_parts, req, status,
                   ret, result, version, calls, ghosts>>

\* Lines 57-58, 51: int() succeeds (int() of an int is that int); on to the
\* next required_part
RequiredInt ==
    /\ pc = "validate"
    /\ Required[req] \in DOMAIN version_parts
    /\ LET entry == version_parts[Required[req]]
           parsed == IF entry.t = "int" THEN [ok |-> TRUE, n |-> entry.n]
                     ELSE ParseInt(entry.s)
       IN  /\ parsed.ok
           /\ version_parts' =
                  Store(version_parts, Required[req], IntEntry(parsed.n))
    /\ IF req = Len(Required)
       THEN pc' = "suffix" /\ req' = req
       ELSE pc' = "validate" /\ req' = req + 1
    /\ UNCHANGED <<exists, header, caller, file, i, stderr, status, ret, result,
                   version, calls, ghosts>>

\* Lines 57-62: int() raises ValueError
RequiredNotInteger ==
    /\ pc = "validate"
    /\ Required[req] \in DOMAIN version_parts
    /\ LET entry == version_parts[Required[req]]
       IN  entry.t = "str" /\ ~ParseInt(entry.s).ok
    /\ stderr' = Append(stderr, Fatal("NotInteger", Required[req]))
    /\ pc' = "sys_exit"
    /\ UNCHANGED <<exists, header, caller, file, i, version_parts, req, status,
                   ret, result, version, calls, ghosts>>

\* sys.exit(0)
SysExitZero ==
    /\ pc = "sys_exit"
    /\ status' = 0
    /\ pc' = "exited"
    /\ UNCHANGED <<exists, header, caller, file, i, version_parts, req, stderr,
                   ret, result, version, calls, ghosts>>

\* Lines 22, 56, 63: sys.exit(1)
SysExit ==
    /\ pc = "sys_exit"
    /\ status' = 1
    /\ pc' = "exited"
    /\ UNCHANGED <<exists, header, caller, file, i, version_parts, req, stderr,
                   ret, result, version, calls, ghosts>>

\* Lines 65-79: the suffix and the returned tuple
ReturnTuple ==
    /\ pc = "suffix"
    /\ ret' = Some(<<version_parts["MAJOR"].n, version_parts["MINOR"].n,
                     version_parts["REVISION"].n,
                     Suffix(version_parts)>>)
    /\ pc' = IF caller = "extract_version" THEN "idle" ELSE "format"
    /\ UNCHANGED <<exists, header, caller, file, i, version_parts, req, stderr,
                   status, result, version, calls, ghosts>>

\* Lines 88-94: get_version_string formats what extract_version returned
ReturnString ==
    /\ pc = "format"
    /\ result' = Some(Format(ret.v))
    /\ pc' = IF caller = "import" THEN "assign" ELSE "idle"
    /\ UNCHANGED <<exists, header, caller, file, i, version_parts, req, stderr,
                   status, ret, version, calls, ghosts>>

\* Line 97: __version__ = get_version_string()
AssignVersion ==
    /\ pc = "assign"
    /\ version' = result
    /\ pc' = "idle"
    /\ UNCHANGED <<exists, header, caller, file, i, version_parts, req, stderr,
                   status, ret, result, calls, ghosts>>

\* A client of the imported module calls extract_version (line 27) or
\* get_version_string (line 82)
Call(f) ==
    /\ pc = "idle"
    /\ calls < MaxCalls
    /\ calls' = calls + 1
    /\ caller' = f
    /\ pc' = "get_header"
    /\ ret' = None
    /\ result' = None
    /\ lastFile' = Some(callFile)
    /\ lastRet' = ret
    /\ lastResult' = result
    /\ callFile' = <<exists, header>>
    /\ UNCHANGED <<exists, header, file, i, version_parts, req, stderr, status,
                   version, importFile>>

CallExtractVersion == Call("extract_version")

CallGetVersionString == Call("get_version_string")

\* Between two calls the header is rewritten: one line is replaced
EditHeader ==
    /\ pc = "idle"
    /\ calls < MaxCalls
    /\ <<exists, header>> = callFile
    /\ exists
    /\ \E k \in 1..Len(header), l \in Lines :
           /\ l # header[k]
           /\ header' = [header EXCEPT ![k] = l]
    /\ UNCHANGED <<exists, pc, caller, file, i, version_parts, req, stderr,
                   status, ret, result, version, calls, ghosts>>

\* Between two calls a line is added to the header
ExtendHeader ==
    /\ pc = "idle"
    /\ calls < MaxCalls
    /\ <<exists, header>> = callFile
    /\ exists
    /\ Len(header) < MaxLines
    /\ \E l \in Lines : header' = Append(header, l)
    /\ UNCHANGED <<exists, pc, caller, file, i, version_parts, req, stderr,
                   status, ret, result, version, calls, ghosts>>

\* Between two calls the header is removed
RemoveHeader ==
    /\ pc = "idle"
    /\ calls < MaxCalls
    /\ <<exists, header>> = callFile
    /\ exists
    /\ exists' = FALSE
    /\ header' = <<>>
    /\ UNCHANGED <<pc, caller, file, i, version_parts, req, stderr, status, ret,
                   result, version, calls, ghosts>>

Next ==
    \/ HeaderMissing
    \/ HeaderFound
    \/ OpenHeader
    \/ ScanSkip
    \/ ScanWarn
    \/ ScanRecord
    \/ CloseHeader
    \/ RequiredNotFound
    \/ RequiredInt
    \/ RequiredNotInteger
    \/ SysExit
    \/ ReturnTuple
    \/ ReturnString
    \/ AssignVersion

Spec == Init /\ [][Next]_vars

-----------------------------------------------------------------------------
(* The imported module and its clients: calls after the import, and the   *)
(* header rewritten between two calls.                                     *)

WellFormed ==
    <<Define("MAJOR", <<"1">>), Define("MINOR", <<"2">>),
      Define("REVISION", <<"3", " ">>)>>

InitCalls ==
    /\ exists = TRUE
    /\ header = WellFormed
    /\ Started

NextCalls ==
    \/ Next
    \/ CallExtractVersion
    \/ CallGetVersionString
    \/ EditHeader
    \/ ExtendHeader
    \/ RemoveHeader

SpecCalls == InitCalls /\ [][NextCalls]_vars

-----------------------------------------------------------------------------
(* What a header says, read off its lines directly *)

\* the lines that define POLYTRACKER_VERSION_<name>
DefLines(h, name) ==
    {k \in 1..Len(h) : Match(h[k]) # None /\ Match(h[k]).v[1] = name}


RECURSIVE LastDef(_, _, _)
\* the last of the lines 1..k that defines name, 0 if there is none
LastDef(h, name, k) ==
    IF k = 0 THEN 0
    ELSE IF Match(h[k]) # None /\ Match(h[k]).v[1] = name THEN k
    ELSE LastDef(h, name, k - 1)

Defined(h, name) == LastDef(h, name, Len(h)) # 0

\* the value on the last line that defines name
LastValue(h, name) == Match(h[LastDef(h, name, Len(h))]).v[2]

\* the matching lines whose name is none of the four
Unexpected(h) ==
    {k \in 1..Len(h) : Match(h[k]) # None /\ Match(h[k]).v[1] \notin Recognized}

\* h without the lines of the set drop
RECURSIVE Without(_, _, _)
Without(h, drop, k) ==
    IF k > Len(h) THEN <<>>
    ELSE IF k \in drop THEN Without(h, drop, k + 1)
    ELSE <<h[k]>> \o Without(h, drop, k + 1)

IsInteger(text) == ParseInt(text).ok

Defective(h, name) == ~Defined(h, name) \/ ~IsInteger(LastValue(h, name))

DefectKind(h, name) == IF Defined(h, name) THEN "NotInteger" ELSE "NotFound"

\* the first of MAJOR, MINOR, REVISION that is absent or not an integer
FirstDefect(h) ==
    IF Defective(h, "MAJOR") THEN "MAJOR"
    ELSE IF Defective(h, "MINOR") THEN "MINOR"
    ELSE "REVISION"

AnyDefect(h) == \E name \in {"MAJOR", "MINOR", "REVISION"} : Defective(h, name)

\* the entries of sys.stderr of the given kinds
Written(kinds) == {k \in 1..Len(stderr) : stderr[k].kind \in kinds}

RECURSIVE Warnings(_, _)
\* the warnings that lines k.. of h call for, in the order of the lines
Warnings(h, k) ==
    IF k > Len(h) THEN <<>>
    ELSE IF k \in Unexpected(h)
    THEN <<Warning(Match(h[k]).v[1], k)>> \o Warnings(h, k + 1)
    ELSE Warnings(h, k + 1)

IsWarning(entry) == entry.kind = "Warning"

Over == pc \in {"idle", "exited"}

Returned == ret # None

Succeeded == pc \in {"suffix", "format", "assign", "idle"}

Exiting == pc \in {"sys_exit", "exited"}

RECURSIVE DigitRun(_)
\* the length of the longest prefix of decimal digits
DigitRun(text) ==
    IF text # <<>> /\ IsDigit(Head(text)) THEN 1 + DigitRun(Tail(text)) ELSE 0

\* text begins with three dot-separated runs of decimal digits
BeginsWithTriple(text) ==
    LET a == DigitRun(text)
        t2 == SubSeq(text, a + 2, Len(text))
        b == DigitRun(t2)
        t3 == SubSeq(t2, b + 2, Len(t2))
        c == DigitRun(t3)
    IN  /\ a > 0 /\ Len(text) > a /\ text[a + 1] = "."
        /\ b > 0 /\ Len(t2) > b /\ t2[b + 1] = "."
        /\ c > 0

Dot == <<".">>

V123 ==
    <<Define("MAJOR", <<"1">>), Define("MINOR", <<"2">>),
      Define("REVISION", <<"3", " ">>)>>

SuffixRc1 == Define("SUFFIX", <<Quote, "-", "r", "c", "1", Quote>>)

-----------------------------------------------------------------------------
(* Claims *)

\* C1: whenever extract_version returns, major, minor and revision are
\* non-negative integers, and the rendered string begins with three
\* dot-separated runs of decimal digits.
C1_NonNegativeTriple ==
    /\ Returned => \A k \in 1..3 : ret.v[k] >= 0
    /\ result # None => BeginsWithTriple(result.v)

\* C2: if the header does not exist, or one of MAJOR, MINOR, REVISION is
\* absent or not an integer, the run writes a diagnostic to sys.stderr, then
\* exits with a non-zero status, and produces neither a tuple nor a string.
C2_FatalExit ==
    /\ Succeeded \/ ret # None \/ result # None \/ version # None
           => exists /\ ~AnyDefect(header) /\ status = 0
    /\ pc \in {"get_header", "validate", "sys_exit"} => ENABLED Next
    /\ pc = "sys_exit" =>
           /\ status = 0
           /\ stderr # <<>> /\ stderr[Len(stderr)].kind \in FatalKinds
    /\ pc = "exited" =>
           /\ ~exists \/ AnyDefect(header)
           /\ status # 0
           /\ stderr # <<>> /\ stderr[Len(stderr)].kind \in FatalKinds
    /\ status # 0 => pc = "exited"

C2_Witness ==
    /\ pc = "exited"
    /\ exists
    /\ Defined(header, "MAJOR") /\ Defined(header, "MINOR")
    /\ ~Defined(header, "REVISION")
    /\ stderr[Len(stderr)] = Fatal("NotFound", "REVISION")

\* C3: get_version_string returns "{major}.{minor}.{revision}" when the suffix
\* is None and "{major}.{minor}.{revision}{suffix}" otherwise; 1, 2, 3 give
\* "1.2.3" and with SUFFIX "-rc1" (quoted) "1.2.3-rc1".
C3_VersionString ==
    /\ result # None =>
           /\ Returned
           /\ LET primary == Str(ret.v[1]) \o Dot \o Str(ret.v[2]) \o Dot
                                 \o Str(ret.v[3])
              IN  result.v = IF ret.v[4] = None THEN primary
                             ELSE primary \o ret.v[4].v
    /\ pc = "idle" /\ header = V123
           => result = Some(<<"1", ".", "2", ".", "3">>)
    /\ pc = "idle" /\ header = Append(V123, SuffixRc1)
           => result = Some(<<"1", ".", "2", ".", "3", "-", "r", "c", "1">>)

C3_Witness ==
    /\ pc = "idle"
    /\ header = Append(V123, SuffixRc1)
    /\ result = Some(<<"1", ".", "2", ".", "3", "-", "r", "c", "1">>)

Enclosed(text) ==
    Len(text) >= 2 /\ text[1] = Quote /\ text[Len(text)] = Quote

QuoteOnly(text) == \A k \in 1..Len(text) : text[k] = Quote

\* C4 as claimed: the returned suffix is None or a non-empty string that is
\* not enclosed in double-quotes, and a quote-only SUFFIX value yields None.
C4_Original ==
    Returned =>
        /\ ret.v[4] # None => ret.v[4].v # <<>> /\ ~Enclosed(ret.v[4].v)
        /\ Defined(header, "SUFFIX") /\ QuoteOnly(LastValue(header, "SUFFIX"))
               => ret.v[4] = None

\* C4 (amended): the returned suffix is None or a non-empty string, which is
\* the SUFFIX value, less one leading and one trailing double-quote when the
\* value is enclosed in them; it is still enclosed in double-quotes only when
\* the value was enclosed twice; the value "" yields None.
C4_SuffixNormalized ==
    Returned =>
        LET suffix == ret.v[4]
        IN  /\ suffix # None =>
                   /\ suffix.v # <<>>
                   /\ Defined(header, "SUFFIX")
                   /\ LET value == LastValue(header, "SUFFIX")
                      IN  /\ \/ suffix.v = value
                             \/ <<Quote>> \o suffix.v \o <<Quote>> = value
                          /\ Enclosed(suffix.v) =>
                                 Enclosed(value) /\ Enclosed(Slice1(value))
            /\ /\ Defined(header, "SUFFIX")
               /\ LastValue(header, "SUFFIX") = <<Quote, Quote>>
               => suffix = None

C4_Witness ==
    /\ Returned
    /\ Defined(header, "SUFFIX")
    /\ LastValue(header, "SUFFIX") = <<Quote, Quote, Quote, Quote>>
    /\ ret.v[4] = Some(<<Quote, Quote>>)

\* C5: SUFFIX handling is never fatal; the suffix is None when SUFFIX is
\* absent; a value that begins and ends with a double-quote loses exactly
\* one leading and one trailing double-quote, any other value is kept as it
\* is; an empty outcome is None.  A header whose SUFFIX is "" gives the tuple
\* and the string of the same header without SUFFIX lines.
C5_SuffixHandling ==
    /\ pc = "exited" => stderr[Len(stderr)].name # "SUFFIX"
    /\ pc = "suffix" => ENABLED ReturnTuple
    /\ Returned =>
           LET suffix == ret.v[4]
               value == LastValue(header, "SUFFIX")
               quoted == value[1] = Quote /\ value[Len(value)] = Quote
           IN  IF ~Defined(header, "SUFFIX") THEN suffix = None
               ELSE IF quoted /\ Len(value) <= 2 THEN suffix = None
               ELSE IF quoted
               THEN suffix # None /\ value = <<Quote>> \o suffix.v \o <<Quote>>
               ELSE suffix = Some(value)
    /\ /\ pc = "idle"
       /\ Defined(header, "SUFFIX")
       /\ LastValue(header, "SUFFIX") = <<Quote, Quote>>
       => LET bare == Without(header, DefLines(header, "SUFFIX"), 1)
              other == Extract(<<TRUE, bare>>)
          IN  /\ other.ok
              /\ ret = Some(other.tuple)
              /\ result = Some(Format(other.tuple))
              /\ ret.v[4] = None

C5_Witness ==
    /\ pc = "idle"
    /\ Defined(header, "SUFFIX")
    /\ LastValue(header, "SUFFIX") = <<Quote, Quote>>
    /\ result = Some(<<"1", ".", "2", ".", "3">>)

\* the outcome of the current call, once it is over
Outcome ==
    IF pc = "exited"
    THEN Failure(stderr[Len(stderr)].kind, stderr[Len(stderr)].name)
    ELSE [ok |-> TRUE, tuple |-> ret.v]

\* C6: a matching line with a name that is none of the four gives exactly one
\* warning, with the line's 1-indexed number, is not recorded in
\* version_parts, and does not change the outcome: it is the outcome of the
\* header without those lines.
C6_UnexpectedIgnored ==
    /\ DOMAIN version_parts \subseteq Recognized
    /\ pc # "scan" /\ Len(stderr) > 0 /\ IsWarning(stderr[Len(stderr)])
           => i = Len(header)
    /\ Over =>
           /\ SelectSeq(stderr, IsWarning) =
                  IF exists THEN Warnings(header, 1) ELSE <<>>
           /\ Outcome =
                  Extract(<<exists, Without(header, Unexpected(header), 1)>>)

C6_Witness ==
    /\ pc = "idle"
    /\ Len(header) = MaxLines
    /\ Unexpected(header) = {2}
    /\ stderr = <<Warning("FOO", 2)>>

\* C8: the required macros are validated in the order MAJOR, MINOR, REVISION
\* and validation stops at the first failure: the one fatal diagnostic names
\* the first macro that is absent or not an integer, with the kind of that
\* macro's defect; there is never a second fatal diagnostic.
C8_FirstDefectReported ==
    /\ Len(stderr) > 1 => IsWarning(stderr[Len(stderr) - 1])
    /\ Len(stderr) > 0 /\ ~IsWarning(stderr[Len(stderr)]) => Exiting
    /\ pc = "exited" /\ exists =>
           /\ AnyDefect(header)
           /\ stderr[Len(stderr)] =
                  Fatal(DefectKind(header, FirstDefect(header)),
                        FirstDefect(header))
    /\ pc = "idle" => ~AnyDefect(header)

C8_Witness ==
    /\ pc = "exited"
    /\ Len(header) >= 2
    /\ header[1] = Define("MINOR", <<"x">>)
    /\ ~Defined(header, "REVISION")
    /\ ~Defined(header, "MAJOR")
    /\ stderr[Len(stderr)] = Fatal("NotFound", "MAJOR")

\* C9: when a recognized name is defined on several lines, the value on the
\* last of them is validated and returned, and nothing is written about the
\* duplication: an invalid value followed by a valid one succeeds, a valid
\* value followed by a non-integer is fatal.
C9_LastDefinitionWins ==
    /\ pc = "idle" =>
           /\ \A k \in 1..3 :
                  /\ Defined(header, Required[k])
                  /\ IsInteger(LastValue(header, Required[k]))
                  /\ ret.v[k] = ParseInt(LastValue(header, Required[k])).n
           /\ ret.v[4] # None =>
                  /\ Defined(header, "SUFFIX")
                  /\ LastValue(header, "SUFFIX") \in
                         {ret.v[4].v, <<Quote>> \o ret.v[4].v \o <<Quote>>}
    /\ pc = "validate" /\ req = 1 =>
           \A name \in Recognized :
               IF Defined(header, name)
               THEN /\ name \in DOMAIN version_parts
                    /\ version_parts[name] = StrEntry(LastValue(header, name))
               ELSE name \notin DOMAIN version_parts
    /\ pc = "exited" /\ exists =>
           \E name \in {"MAJOR", "MINOR", "REVISION"} :
               /\ stderr[Len(stderr)].name = name
               /\ \/ ~Defined(header, name)
                  \/ ~IsInteger(LastValue(header, name))
    /\ Over /\ exists =>
           Len(stderr) = Cardinality(Unexpected(header))
                             + (IF pc = "exited" THEN 1 ELSE 0)

C9_Witness ==
    /\ pc = "idle"
    /\ header[1] = Define("MAJOR", <<"a", "b", "c">>)
    /\ Cardinality(DefLines(header, "MAJOR")) = 2
    /\ ret.v[1] = 1
    /\ stderr = <<>>

\* C10: the header is opened only after the existence check passed, is read
\* to the end and is closed before the first required macro is validated:
\* every fatal exit happens with the file closed, and every warning is
\* written before any fatal diagnostic.
C10_ReadBeforeValidation ==
    /\ file = "open" => exists /\ pc = "scan"
    /\ pc \in {"validate", "suffix", "format", "assign", "idle"} =>
           /\ file = "closed"
           /\ i = Len(header)
    /\ Exiting => file = "closed" /\ (exists => i = Len(header))
    /\ ~exists => i = 0
    /\ pc \in {"get_header", "open", "scan"} => Written(FatalKinds) = {}
    /\ \A j \in Written(FatalKinds) : j = Len(stderr)

C10_Witness ==
    /\ pc = "exited"
    /\ file = "closed"
    /\ Len(stderr) = 3
    /\ stderr[3].kind = "NotInteger"
    /\ i = MaxLines

\* C7: a call to extract_version makes its tuple of the header as it is when
\* the call starts and of nothing else: two calls on the same content return
\* the same tuple and the same string, a call after the header changed gives
\* what the new content says, and __version__ keeps the string of the import.
C7_Stateless ==
    /\ Over => Outcome = Extract(callFile)
    /\ pc = "idle" /\ caller # "extract_version" =>
           result = Some(Format(Extract(callFile).tuple))
    /\ pc = "idle" /\ lastFile = Some(callFile) =>
           /\ ret = lastRet
           /\ result # None /\ lastResult # None => result = lastResult
    /\ pc = "idle" \/ calls > 0 =>
           version = Some(Format(Extract(importFile).tuple))

C7_Witness ==
    /\ pc = "idle"
    /\ calls = 2
    /\ callFile # importFile
    /\ lastFile = Some(callFile)
    /\ ret = lastRet
    /\ result # None /\ result = lastResult /\ result # version

=============================================================================
